---------------------------- MODULE Spec2Model ----------------------------
(* A model of powerbi-models (src/src/models.ts): the Filter value        *)
(* hierarchy (BasicFilter, AdvancedFilter, toJSON), the structural        *)
(* discriminator getFilterType, and the validator factory validate with   *)
(* its error normaliser normalizeError.                                   *)
(*                                                                        *)
(* JavaScript values are tagged records: t is the runtime tag, v the      *)
(* payload (a TLA+ string, number, boolean, sequence of values for an     *)
(* array, or a function from property names to values for an object).     *)
EXTENDS Integers, Sequences, FiniteSets, TLC

VARIABLES call, outcome, filter, json, finput, ftype, vname, vinput, verrors,
          raw, nin, nout, prevJson, vmissing, vcalls, vprev

vars == <<call, outcome, filter, json, finput, ftype, vname, vinput, verrors,
          raw, nin, nout, prevJson, vmissing, vcalls, vprev>>

(* ------------------------------ bounds -------------------------------- *)

\* Largest number of trailing positional arguments of a constructor call.
MaxArgs == 3

\* Largest length of an array passed as one argument.
MaxLen == 3

\* Calls made on one produced validator.
MaxCalls == 3

(* --------------------------- JavaScript values ------------------------ *)

Undefined == [t |-> "undefined"]

Null == [t |-> "null"]

Str(s) == [t |-> "string", v |-> s]

Num(n) == [t |-> "number", v |-> n]

Bool(b) == [t |-> "boolean", v |-> b]

Arr(a) == [t |-> "array", v |-> a]

Obj(f) == [t |-> "object", v |-> f]

\* The empty object literal {}.
EmptyObject == Obj(<<>>)

\* typeof x
typeof(x) ==
  CASE x.t = "string" -> "string"
    [] x.t = "number" -> "number"
    [] x.t = "boolean" -> "boolean"
    [] x.t = "undefined" -> "undefined"
    [] OTHER -> "object"

\* Array.isArray(x)
isArray(x) == x.t = "array"

\* o.f for a non-null, non-undefined o: the own property, else undefined
\* (a primitive or an array has none of the properties read here as an
\* array or a string).
Get(o, f) == IF o.t = "object" /\ f \in DOMAIN o.v THEN o.v[f] ELSE Undefined

\* All sequences over S of length at most n.
SeqUpTo(S, n) == UNION {[1..k -> S] : k \in 0..n}

(* ------------------------------ filters ------------------------------- *)

BasicSchemaUrl == "http://powerbi.com/product/schema#basic"

AdvancedSchemaUrl == "http://powerbi.com/product/schema#advanced"

\* The result of a constructor call: the new object, or the Error thrown.
Ok(o) == [threw |-> FALSE, obj |-> o, error |-> ""]

Throw(msg) == [threw |-> TRUE, obj |-> Undefined, error |-> msg]

\* new BasicFilter(target, operator, ...values)
BasicFilter(target, operator, values) ==
  IF Len(values) = 0
  THEN Throw("values must be a non-empty array. You passed: ")
  ELSE Ok([schemaUrl |-> Str(BasicSchemaUrl),
           target |-> target,
           operator |-> operator,
           values |-> IF isArray(values[1]) THEN values[1] ELSE Arr(values)])

\* AdvancedFilter with the guard's length test left out.
AdvancedFilter_NoEmptyCheck(target, logicalOperator, conditions) ==
  IF typeof(logicalOperator) # "string"
  THEN Throw("logicalOperator must be a valid operator, You passed: ")
  ELSE IF Len(conditions) = 0
  THEN Throw("conditions must be a non-empty array. You passed: ")
  ELSE IF Len(conditions) > 2
  THEN Throw("AdvancedFilters may not have more than two conditions. You passed: ")
  ELSE Ok([schemaUrl |-> Str(AdvancedSchemaUrl),
           target |-> target,
           logicalOperator |-> logicalOperator,
           conditions |-> IF isArray(conditions[1]) THEN conditions[1]
                          ELSE Arr(conditions)])

\* new AdvancedFilter(target, logicalOperator, ...conditions)
AdvancedFilter(target, logicalOperator, conditions) ==
  IF typeof(logicalOperator) # "string" \/ Len(logicalOperator.v) = 0
  THEN Throw("logicalOperator must be a valid operator, You passed: ")
  ELSE IF Len(conditions) = 0
  THEN Throw("conditions must be a non-empty array. You passed: ")
  ELSE IF Len(conditions) > 2
  THEN Throw("AdvancedFilters may not have more than two conditions. You passed: ")
  ELSE Ok([schemaUrl |-> Str(AdvancedSchemaUrl),
           target |-> target,
           logicalOperator |-> logicalOperator,
           conditions |-> IF isArray(conditions[1]) THEN conditions[1]
                          ELSE Arr(conditions)])

\* Filter.prototype.toJSON leaving the target out.
Filter_toJSON_NoTarget(this) ==
  ("$schema" :> this.schemaUrl)

\* Filter.prototype.toJSON
Filter_toJSON(this) ==
  ("$schema" :> this.schemaUrl) @@ [target |-> this.target]

\* BasicFilter.prototype.toJSON leaving the operator out.
BasicFilter_toJSON_NoOperator(this) ==
  Obj([values |-> this.values] @@ Filter_toJSON(this))

\* BasicFilter.prototype.toJSON
BasicFilter_toJSON(this) ==
  Obj([operator |-> this.operator, values |-> this.values] @@ Filter_toJSON(this))

\* AdvancedFilter.prototype.toJSON copying the instance's schemaUrl field too.
AdvancedFilter_toJSON_KeepsSchemaUrl(this) ==
  Obj([logicalOperator |-> this.logicalOperator,
       conditions |-> this.conditions,
       schemaUrl |-> this.schemaUrl] @@ Filter_toJSON(this))

\* AdvancedFilter.prototype.toJSON
AdvancedFilter_toJSON(this) ==
  Obj([logicalOperator |-> this.logicalOperator,
       conditions |-> this.conditions] @@ Filter_toJSON(this))

\* filter.toJSON(), dispatched on the object's class.
toJSON(cls, this) ==
  IF cls = "BasicFilter" THEN BasicFilter_toJSON(this)
  ELSE AdvancedFilter_toJSON(this)

\* getFilterType with the Advanced check made first.
getFilterType_AdvancedFirst(f) ==
  IF f.t \in {"null", "undefined"} THEN "TypeError"
  ELSE IF typeof(Get(f, "logicalOperator")) = "string"
          /\ isArray(Get(f, "conditions"))
  THEN "Advanced"
  ELSE IF typeof(Get(f, "operator")) = "string" /\ isArray(Get(f, "values"))
  THEN "Basic"
  ELSE "Unknown"

\* getFilterType(filter); reading a property of null or undefined throws
\* a TypeError.
getFilterType(f) ==
  IF f.t \in {"null", "undefined"} THEN "TypeError"
  ELSE IF typeof(Get(f, "operator")) = "string" /\ isArray(Get(f, "values"))
  THEN "Basic"
  ELSE IF typeof(Get(f, "logicalOperator")) = "string"
          /\ isArray(Get(f, "conditions"))
  THEN "Advanced"
  ELSE "Unknown"

(* -------------------------- error normaliser --------------------------- *)

\* A raw failure record of the schema evaluator (IValidationError): a
\* function from a subset of {"path", "keyword", "message"} to strings;
\* an absent key is an undefined property.

\* !error.message : the message is undefined or the empty string.
NoMessage(error) == "message" \notin DOMAIN error \/ error["message"] = ""

\* normalizeError deleting the path only.
normalizeError_KeepsKeyword(error) ==
  LET withMessage ==
        IF NoMessage(error)
        THEN [k \in DOMAIN error \cup {"message"} |->
                IF k = "message"
                THEN error["path"] \o " is invalid. Not meeting "
                       \o error["keyword"] \o " constraint"
                ELSE error[k]]
        ELSE error
  IN [k \in DOMAIN withMessage \ {"path"} |-> withMessage[k]]

\* normalizeError(error)
normalizeError(error) ==
  LET withMessage ==
        IF NoMessage(error)
        THEN [k \in DOMAIN error \cup {"message"} |->
                IF k = "message"
                THEN error["path"] \o " is invalid. Not meeting "
                       \o error["keyword"] \o " constraint"
                ELSE error[k]]
        ELSE error
  IN [k \in DOMAIN withMessage \ {"path", "keyword"} |-> withMessage[k]]

(* --------------------------- schema documents ------------------------- *)

\* A schema document is a record with any of the keys: type (a set of JSON
\* type names), required (property names, in order), properties (a
\* sequence of [name, schema]), items (a schema), oneOf (a sequence of
\* schemas), ref (the name of an auxiliary schema), messages (keyword ->
\* override message), invalidMessage.

Has(s, k) == k \in DOMAIN s

Prop(n, s) == [name |-> n, schema |-> s]

StringSchema == [type |-> {"string"}]

ScalarSchema == [type |-> {"string", "boolean", "number"}]

columnTargetSchema ==
  [type |-> {"object"},
   properties |-> <<Prop("table", StringSchema), Prop("column", StringSchema)>>,
   required |-> <<"table", "column">>]

hierarchyTargetSchema ==
  [type |-> {"object"},
   properties |-> <<Prop("table", StringSchema),
                    Prop("hierarchy", StringSchema),
                    Prop("hierarchyLevel", StringSchema)>>,
   required |-> <<"table", "hierarchy", "hierarchyLevel">>]

measureTargetSchema ==
  [type |-> {"object"},
   properties |-> <<Prop("table", StringSchema), Prop("measure", StringSchema)>>,
   required |-> <<"table", "measure">>]

filterTargetSchema ==
  [type |-> {"object"},
   oneOf |-> <<columnTargetSchema, hierarchyTargetSchema, measureTargetSchema>>]

basicFilterSchema ==
  [type |-> {"object"},
   properties |-> <<Prop("target", filterTargetSchema),
                    Prop("operator", StringSchema),
                    Prop("values", [type |-> {"array"}, items |-> ScalarSchema])>>,
   required |-> <<"target", "operator", "values">>]

conditionSchema ==
  [type |-> {"object"},
   properties |-> <<Prop("value", ScalarSchema), Prop("operator", StringSchema)>>,
   required |-> <<"value", "operator">>]

advancedFilterSchema ==
  [type |-> {"object"},
   properties |-> <<Prop("target", filterTargetSchema),
                    Prop("logicalOperator", StringSchema),
                    Prop("conditions",
                         [type |-> {"array"}, items |-> conditionSchema])>>,
   required |-> <<"target", "logicalOperator", "conditions">>]

filterSchema ==
  [oneOf |-> <<[ref |-> "basicFilter"], [ref |-> "advancedFilter"]>>,
   invalidMessage |-> "filter is invalid"]

settingsSchema ==
  [type |-> {"object"},
   properties |->
     <<Prop("filterPaneEnabled",
            [type |-> {"boolean"},
             messages |-> [type |-> "filterPaneEnabled must be a boolean"]]),
       Prop("navContentPaneEnabled",
            [type |-> {"boolean"},
             messages |-> [type |-> "navContentPaneEnabled must be a boolean"]])>>]

loadSchema ==
  [type |-> {"object"},
   properties |->
     <<Prop("accessToken",
            [type |-> {"string"},
             messages |-> [type |-> "accessToken must be a string",
                           required |-> "accessToken is required"]]),
       Prop("id",
            [type |-> {"string"},
             messages |-> [type |-> "id must be a string",
                           required |-> "id is required"]]),
       Prop("settings", [ref |-> "settings"]),
       Prop("pageName",
            [type |-> {"string"},
             messages |-> [type |-> "pageName must be a string"]]),
       Prop("filter",
            [oneOf |-> <<[ref |-> "basicFilter"], [ref |-> "advancedFilter"]>>,
             invalidMessage |-> "filter property is invalid"])>>,
   required |-> <<"accessToken", "id">>]

pageTargetSchema ==
  [type |-> {"object"},
   properties |-> <<Prop("type", StringSchema), Prop("name", StringSchema)>>,
   required |-> <<"type", "name">>]

visualTargetSchema ==
  [type |-> {"object"},
   properties |-> <<Prop("type", StringSchema), Prop("id", StringSchema)>>,
   required |-> <<"type", "id">>]

targetSchema ==
  [oneOf |-> <<[ref |-> "pageTarget"], [ref |-> "visualTarget"]>>,
   invalidMessage |-> "target is invalid"]

(* --------------------------- schema evaluator ------------------------- *)

\* The JSON type of a value.
jsonType(x) == x.t

JoinPath(path, name) == IF path = "" THEN name ELSE path \o "." \o name

RECURSIVE ConcatAll(_)
ConcatAll(ss) == IF ss = <<>> THEN <<>> ELSE Head(ss) \o ConcatAll(Tail(ss))

\* The raw failure of rule `keyword` of schema s at `path`: the rule's
\* override message when the schema declares one.
RawError(s, path, keyword) ==
  LET base == [path |-> path, keyword |-> keyword]
  IN IF Has(s, "messages") /\ keyword \in DOMAIN s.messages
     THEN base @@ [message |-> s.messages[keyword]]
     ELSE IF Has(s, "invalidMessage") /\ keyword # "required"
     THEN base @@ [message |-> s.invalidMessage]
     ELSE base

\* Whether every schema that s names (transitively) is in `schemas`.
RECURSIVE Resolves(_, _)
Resolves(s, schemas) ==
  /\ Has(s, "ref") =>
       s.ref \in DOMAIN schemas /\ Resolves(schemas[s.ref], schemas)
  /\ Has(s, "properties") =>
       \A i \in DOMAIN s.properties : Resolves(s.properties[i].schema, schemas)
  /\ Has(s, "items") => Resolves(s.items, schemas)
  /\ Has(s, "oneOf") => \A i \in DOMAIN s.oneOf : Resolves(s.oneOf[i], schemas)

\* The raw failures of value x against schema s, in pre-order.
RECURSIVE jsenErrors(_, _, _, _)
jsenErrors(s, x, path, schemas) ==
  IF Has(s, "ref") THEN jsenErrors(schemas[s.ref], x, path, schemas)
  ELSE IF Has(s, "type") /\ jsonType(x) \notin s.type
  THEN <<RawError(s, path, "type")>>
  ELSE
    LET props == IF Has(s, "properties") THEN s.properties ELSE <<>>
        propSchema(n) ==
          IF \E i \in DOMAIN props : props[i].name = n
          THEN props[CHOOSE i \in DOMAIN props : props[i].name = n].schema
          ELSE <<>>
        requiredErrors ==
          IF Has(s, "required") /\ x.t = "object"
          THEN ConcatAll([i \in DOMAIN s.required |->
                 IF Get(x, s.required[i]) = Undefined
                 THEN <<RawError(propSchema(s.required[i]),
                                 JoinPath(path, s.required[i]), "required")>>
                 ELSE <<>>])
          ELSE <<>>
        propertyErrors ==
          IF x.t = "object"
          THEN ConcatAll([i \in DOMAIN props |->
                 IF Get(x, props[i].name) # Undefined
                 THEN jsenErrors(props[i].schema, Get(x, props[i].name),
                                 JoinPath(path, props[i].name), schemas)
                 ELSE <<>>])
          ELSE <<>>
        itemErrors ==
          IF Has(s, "items") /\ x.t = "array"
          THEN ConcatAll([i \in DOMAIN x.v |->
                 jsenErrors(s.items, x.v[i],
                            JoinPath(path, ToString(i - 1)), schemas)])
          ELSE <<>>
        oneOfErrors ==
          IF Has(s, "oneOf")
             /\ Cardinality({i \in DOMAIN s.oneOf :
                   jsenErrors(s.oneOf[i], x, path, schemas) = <<>>}) # 1
          THEN <<RawError(s, path, "oneOf")>>
          ELSE <<>>
    IN requiredErrors \o propertyErrors \o itemErrors \o oneOfErrors

\* jsen(schema, options) followed by one call of the compiled validator on
\* x: compiling throws when a named schema cannot be resolved; otherwise
\* the call's boolean result and the `errors` it leaves on the validator.
jsen(schema, options, x) ==
  IF ~Resolves(schema, options)
  THEN [threw |-> TRUE, isValid |-> FALSE, errors |-> <<>>]
  ELSE LET errs == jsenErrors(schema, x, "", options)
       IN [threw |-> FALSE, isValid |-> errs = <<>>, errors |-> errs]

(* --------------------------- validator factory ------------------------ *)

\* What a call of a produced validator yields.
Threw == [kind |-> "threw"]

ReturnedUndefined == [kind |-> "undefined"]

Returned(list) == [kind |-> "list", list |-> list]

\* validate mapping the evaluator's errors whether or not the value passed.
validate_ListEvenWhenValid(schema, options, x) ==
  LET run == jsen(schema, options, x)
  IN IF run.threw THEN Threw
     ELSE Returned([i \in DOMAIN run.errors |-> normalizeError(run.errors[i])])

\* validate catching the evaluator's throw and reporting it as a failure.
validate_SwallowsThrow(schema, options, x) ==
  LET run == jsen(schema, options, x)
  IN IF run.threw THEN Returned(<<[message |-> "schema is invalid"]>>)
     ELSE IF run.isValid THEN ReturnedUndefined
     ELSE Returned([i \in DOMAIN run.errors |-> normalizeError(run.errors[i])])

\* validate(schema, options)(x)
validate(schema, options, x) ==
  LET run == jsen(schema, options, x)
  IN IF run.threw THEN Threw
     ELSE IF run.isValid THEN ReturnedUndefined
     ELSE Returned([i \in DOMAIN run.errors |-> normalizeError(run.errors[i])])

filterSchemas ==
  [basicFilter |-> basicFilterSchema, advancedFilter |-> advancedFilterSchema]

loadSchemas ==
  [settings |-> settingsSchema,
   basicFilter |-> basicFilterSchema,
   advancedFilter |-> advancedFilterSchema]

targetSchemas ==
  [pageTarget |-> pageTargetSchema, visualTarget |-> visualTargetSchema]

validateSettings(x) == validate(settingsSchema, filterSchemas, x)

validateLoad(x) == validate(loadSchema, loadSchemas, x)

validateTarget(x) == validate(targetSchema, targetSchemas, x)

validateFilter(x) == validate(filterSchema, filterSchemas, x)

\* The exported validators, by name, with the root schema and the auxiliary
\* schemas each was built with.
Validators ==
  {"validateSettings", "validateLoad", "validateTarget", "validateFilter"}

SchemaOf(name) ==
  CASE name = "validateSettings" -> settingsSchema
    [] name = "validateLoad" -> loadSchema
    [] name = "validateTarget" -> targetSchema
    [] name = "validateFilter" -> filterSchema

OptionsOf(name) ==
  CASE name = "validateSettings" -> filterSchemas
    [] name = "validateLoad" -> loadSchemas
    [] name = "validateTarget" -> targetSchemas
    [] name = "validateFilter" -> filterSchemas

\* A produced validator whose evaluator is compiled once and shared by its
\* calls, so that the failures of earlier calls stay in its list.
validateAfter_SharedEvaluator(previous, schema, options, x) ==
  LET run == jsen(schema, options, x)
      all == previous \o [i \in DOMAIN run.errors |-> normalizeError(run.errors[i])]
  IN IF run.threw THEN Threw
     ELSE IF all = <<>> THEN ReturnedUndefined
     ELSE Returned(all)

\* validate(schema, options)(x) called after an earlier call of the same
\* closure returned the failures `previous`: the closure holds schema and
\* options only, and compiles a new evaluator on every call.
validateAfter(previous, schema, options, x) ==
  LET run == jsen(schema, options, x)
  IN IF run.threw THEN Threw
     ELSE IF run.isValid THEN ReturnedUndefined
     ELSE Returned([i \in DOMAIN run.errors |-> normalizeError(run.errors[i])])

\* The auxiliary mapping of validator `name` with the names in `missing`
\* left out of it.
AuxOf(name, missing) ==
  [k \in DOMAIN OptionsOf(name) \ missing |-> OptionsOf(name)[k]]

\* A call of the exported validator `name` on x.
CallValidator(name, x) ==
  CASE name = "validateSettings" -> validateSettings(x)
    [] name = "validateLoad" -> validateLoad(x)
    [] name = "validateTarget" -> validateTarget(x)
    [] name = "validateFilter" -> validateFilter(x)

(* ------------------------------- inputs ------------------------------- *)

ColumnTarget == Obj([table |-> Str("a"), column |-> Str("b")])

\* A well-formed target and one that is no target.
Targets == {ColumnTarget, EmptyObject}

BasicOperatorArgs == {Str("In"), Str(""), Num(1)}

LogicalOperatorArgs == {Str("And"), Str(""), Num(1), Undefined}

\* Three scalars and one value that is no scalar.
ValueItems == {Str("a"), Num(100), Bool(FALSE), Obj([x |-> Num(1)])}

Condition(value, operator) == Obj([value |-> value, operator |-> Str(operator)])

\* Three well-formed conditions and a malformed one.
ConditionItems ==
  {Condition(Str("a"), "Is"), Condition(Bool(TRUE), "Is"),
   Condition(Num(1), "Is"), Condition(Obj([x |-> Num(1)]), "condition1")}

\* What may follow an array given as the first trailing argument.
ExtraValueArgs == {Num(100), Arr(<<Str("a")>>)}

ExtraConditionArgs ==
  {Condition(Str("a"), "Is"), Arr(<<Condition(Str("a"), "Is")>>)}

\* The trailing arguments of a constructor call: the items given
\* separately, or an array of them followed by further arguments.
RestArgs(items, extra) ==
  SeqUpTo(items, MaxArgs)
    \cup {<<Arr(a)>> \o more : a \in SeqUpTo(items, MaxLen),
                               more \in SeqUpTo(extra, MaxArgs - 1)}

\* Values handed to getFilterType: objects over every combination of the
\* properties it reads (and $schema), and values that are no objects.
MaybeField(name, values) ==
  {<<>>} \cup {name :> v : v \in values}

FilterSamples ==
  {Obj(a @@ b @@ c @@ d @@ e) :
     a \in MaybeField("operator", {Str("In"), Num(1), Null}),
     b \in MaybeField("values", {Arr(<<>>), Arr(<<Num(1)>>), Str("v"), EmptyObject}),
     c \in MaybeField("logicalOperator", {Str("And"), Num(1)}),
     d \in MaybeField("conditions", {Arr(<<>>), Str("c")}),
     e \in MaybeField("$schema", {Str(BasicSchemaUrl), Str(AdvancedSchemaUrl)})}
    \cup {Null, Str("In"), Num(1), Bool(TRUE), Arr(<<>>), Arr(<<Str("In")>>)}

BasicJSON(values) ==
  Obj(("$schema" :> Str(BasicSchemaUrl))
        @@ [target |-> ColumnTarget, operator |-> Str("In"), values |-> values])

AdvancedJSON(conditions) ==
  Obj(("$schema" :> Str(AdvancedSchemaUrl))
        @@ [target |-> ColumnTarget, logicalOperator |-> Str("And"),
            conditions |-> conditions])

Load(more) == Obj(more @@ [id |-> Str("fakeId"), accessToken |-> Str("fakeAccessToken")])

\* Values handed to each exported validator.
ValidationSamples(name) ==
  CASE name = "validateSettings" ->
         {EmptyObject, Obj([filterPaneEnabled |-> Num(1)]),
          Obj([navContentPaneEnabled |-> Num(1)]),
          Obj([filterPaneEnabled |-> Num(1), navContentPaneEnabled |-> Str("no")]),
          Obj([filterPaneEnabled |-> Bool(TRUE)]), Num(1)}
    [] name = "validateLoad" ->
         {EmptyObject, Obj([accessToken |-> Num(1)]), Load(<<>>),
          Obj([accessToken |-> Num(1), id |-> Num(2)]),
          Load([filter |-> Obj([x |-> Num(1)])]),
          Load([filter |-> BasicJSON(Arr(<<Num(1)>>))]),
          Load([pageName |-> Num(1)]),
          Load([settings |-> Obj([filterPaneEnabled |-> Num(1)])]),
          Load([pageName |-> Num(1), filter |-> Obj([x |-> Num(1)])])}
    [] name = "validateTarget" ->
         {Obj([type |-> Str("page")]), Obj([type |-> Str("visual")]),
          Obj([type |-> Str("visual"), id |-> Str("visualId")]),
          Obj([type |-> Str("page"), name |-> Str("page1")]),
          Obj([type |-> Str("page"), name |-> Str("page1"), id |-> Str("v")]),
          EmptyObject}
    [] name = "validateFilter" ->
         {EmptyObject, Null, Obj([target |-> Obj([table |-> Str("c"), column |-> Str("d")])]),
          Obj([filter |-> Obj([entity |-> Str("c"), property |-> Str("d")])]),
          BasicJSON(Arr(<<Str("a"), Num(100), Bool(FALSE)>>)),
          BasicJSON(Arr(<<Null, Num(1), EmptyObject>>)),
          AdvancedJSON(Arr(<<Condition(Str("a"), "Is")>>)),
          AdvancedJSON(Arr(<<Condition(Obj([x |-> Num(1)]), "condition1")>>)),
          Obj([logicalOperator |-> Str("And"),
               conditions |-> Arr(<<Condition(Num(1), "Is")>>)]
                @@ BasicJSON(Arr(<<Num(1)>>)).v)}

\* Raw failure records handed to normalizeError.
RawSamples ==
  {[path |-> p, keyword |-> k] @@ m :
     p \in {"", "accessToken", "values.0"},
     k \in {"required", "type", "oneOf"},
     m \in {<<>>, [message |-> ""], [message |-> "id is required"]}}

(* ----------------------------- the program ---------------------------- *)

NoCall == [cls |-> "none"]

NotRun == [kind |-> "none"]

Init ==
  /\ call = NoCall
  /\ outcome = "none"
  /\ filter = Undefined
  /\ json = Undefined
  /\ finput = Undefined
  /\ ftype = "NotRun"
  /\ vname = "none"
  /\ vinput = Undefined
  /\ verrors = NotRun
  /\ raw = <<>>
  /\ nin = <<>>
  /\ nout = <<>>
  /\ prevJson = Undefined
  /\ vmissing = {}
  /\ vcalls = 0
  /\ vprev = NotRun

\* Nothing has been constructed, classified, validated or normalised.
Idle ==
  /\ outcome = "none"
  /\ ftype = "NotRun"
  /\ verrors = NotRun
  /\ nout = <<>>

Constructed(cls, target, operator, rest, result) ==
  /\ call' = [cls |-> cls, target |-> target, operator |-> operator, rest |-> rest]
  /\ outcome' = IF result.threw THEN "threw" ELSE "ok"
  /\ filter' = result.obj
  /\ UNCHANGED <<json, finput, ftype, vname, vinput, verrors, raw, nin, nout,
                 prevJson, vmissing, vcalls, vprev>>

\* new BasicFilter(target, operator, ...values)
NewBasicFilter ==
  /\ Idle
  /\ \E target \in Targets, operator \in BasicOperatorArgs,
        values \in RestArgs(ValueItems, ExtraValueArgs) :
       Constructed("BasicFilter", target, operator, values,
                   BasicFilter(target, operator, values))

\* new AdvancedFilter(target, logicalOperator, ...conditions)
NewAdvancedFilter ==
  /\ Idle
  /\ \E target \in Targets, logicalOperator \in LogicalOperatorArgs,
        conditions \in RestArgs(ConditionItems, ExtraConditionArgs) :
       Constructed("AdvancedFilter", target, logicalOperator, conditions,
                   AdvancedFilter(target, logicalOperator, conditions))

\* filter.toJSON() on the constructed filter.
ToJSON ==
  /\ outcome = "ok"
  /\ json = Undefined
  /\ json' = toJSON(call.cls, filter)
  /\ UNCHANGED <<call, outcome, filter, finput, ftype, vname, vinput, verrors,
                 raw, nin, nout,
                 prevJson, vmissing, vcalls, vprev>>

\* A further filter.toJSON() on the same filter; prevJson keeps what the
\* call before it returned.
ToJSONAgain ==
  /\ outcome = "ok"
  /\ json # Undefined
  /\ prevJson' = json
  /\ json' = toJSON(call.cls, filter)
  /\ UNCHANGED <<call, outcome, filter, finput, ftype, vname, vinput, verrors,
                 raw, nin, nout, vmissing, vcalls, vprev>>

\* getFilterType(x), on the filter's JSON or on a value of any shape.
GetFilterType ==
  /\ ftype = "NotRun"
  /\ \E x \in (IF json # Undefined THEN {json} ELSE {})
                \cup (IF Idle THEN FilterSamples ELSE {}) :
       /\ finput' = x
       /\ ftype' = getFilterType(x)
  /\ UNCHANGED <<call, outcome, filter, json, vname, vinput, verrors, raw,
                 nin, nout,
                 prevJson, vmissing, vcalls, vprev>>

\* A call of one of the exported validators; raw records the failures the
\* schema evaluator reported during the call.
Validate ==
  /\ verrors = NotRun
  /\ \E name \in Validators :
     \E x \in (IF json # Undefined /\ name = "validateFilter" THEN {json} ELSE {})
                \cup (IF Idle THEN ValidationSamples(name) ELSE {}) :
       /\ vname' = name
       /\ vinput' = x
       /\ verrors' = CallValidator(name, x)
       /\ raw' = jsen(SchemaOf(name), OptionsOf(name), x).errors
       /\ vmissing' = {}
       /\ vcalls' = 1
  /\ UNCHANGED <<call, outcome, filter, json, finput, ftype, nin, nout,
                 prevJson, vprev>>

\* validate(schema, options) with some names left out of options.schemas,
\* and a call of the validator it produces.
ValidateWithout ==
  /\ Idle
  /\ \E name \in Validators :
     \E missing \in (SUBSET DOMAIN OptionsOf(name)) \ {{}} :
     \E x \in ValidationSamples(name) :
       /\ vname' = name
       /\ vinput' = x
       /\ verrors' = validate(SchemaOf(name), AuxOf(name, missing), x)
       /\ raw' = jsen(SchemaOf(name), AuxOf(name, missing), x).errors
       /\ vmissing' = missing
       /\ vcalls' = 1
  /\ UNCHANGED <<call, outcome, filter, json, finput, ftype, nin, nout,
                 prevJson, vprev>>

\* The failures an earlier call returned.
Failures(result) == IF result.kind = "list" THEN result.list ELSE <<>>

\* A further call of the validator last called; vprev keeps the value and
\* the result of the call before it.
ValidateAgain ==
  /\ verrors # NotRun
  /\ vcalls < MaxCalls
  /\ \E x \in ValidationSamples(vname) :
       /\ vinput' = x
       /\ verrors' = validateAfter(Failures(verrors), SchemaOf(vname),
                                   AuxOf(vname, vmissing), x)
       /\ raw' = jsen(SchemaOf(vname), AuxOf(vname, vmissing), x).errors
  /\ vprev' = [x |-> vinput, result |-> verrors]
  /\ vcalls' = vcalls + 1
  /\ UNCHANGED <<call, outcome, filter, json, finput, ftype, vname, nin, nout,
                 prevJson, vmissing>>

\* normalizeError(e) on one raw failure record.
NormalizeError ==
  /\ Idle
  /\ \E e \in RawSamples :
       /\ nin' = e
       /\ nout' = normalizeError(e)
  /\ UNCHANGED <<call, outcome, filter, json, finput, ftype, vname, vinput,
                 verrors, raw,
                 prevJson, vmissing, vcalls, vprev>>

\* The values of this round are dropped.
Discard ==
  /\ ~Idle
  /\ call' = NoCall
  /\ outcome' = "none"
  /\ filter' = Undefined
  /\ json' = Undefined
  /\ finput' = Undefined
  /\ ftype' = "NotRun"
  /\ vname' = "none"
  /\ vinput' = Undefined
  /\ verrors' = NotRun
  /\ raw' = <<>>
  /\ nin' = <<>>
  /\ nout' = <<>>
  /\ prevJson' = Undefined
  /\ vmissing' = {}
  /\ vcalls' = 0
  /\ vprev' = NotRun

Next ==
  \/ NewBasicFilter
  \/ NewAdvancedFilter
  \/ ToJSON
  \/ GetFilterType
  \/ Validate
  \/ ValidateWithout
  \/ NormalizeError
  \/ Discard

Spec == Init /\ [][Next]_vars

\* Construction and serialisation alone, with toJSON() called repeatedly.
NextToJSON ==
  \/ NewBasicFilter
  \/ NewAdvancedFilter
  \/ ToJSON
  \/ ToJSONAgain
  \/ Discard

SpecToJSON == Init /\ [][NextToJSON]_vars

\* The validators alone, each called repeatedly.
NextValidate ==
  \/ Validate
  \/ ValidateWithout
  \/ ValidateAgain
  \/ Discard

SpecValidate == Init /\ [][NextValidate]_vars

(* ------------------------------- claims ------------------------------- *)

\* The payload a constructor call resolves to: the first trailing argument
\* when it is an array, otherwise the whole positional tail.
ResolvedPayload(rest) ==
  IF rest = <<>> THEN <<>>
  ELSE IF isArray(rest[1]) THEN rest[1].v
  ELSE rest

\* The payload the constructed filter stores.
StoredPayload ==
  IF call.cls = "BasicFilter" THEN filter.values ELSE filter.conditions

\* new cls(target, operator, ...rest)
New(cls, target, operator, rest) ==
  IF cls = "BasicFilter" THEN BasicFilter(target, operator, rest)
  ELSE AdvancedFilter(target, operator, rest)

IsScalar(x) == x.t \in {"string", "number", "boolean"}

\* C1: constructing a BasicFilter fails whenever the resolved values
\* payload is empty, in both call forms, so every constructed BasicFilter
\* has at least one entry in values.
C1_EmptyValuesRejected ==
  call.cls = "BasicFilter" =>
    /\ ResolvedPayload(call.rest) = <<>> => outcome = "threw"
    /\ outcome = "ok" => Len(filter.values.v) >= 1

\* C2: every constructed AdvancedFilter has exactly 1 or 2 conditions:
\* construction fails whenever the resolved condition payload is empty or
\* has more than 2 entries, in both call forms.
C2_OneOrTwoConditions ==
  call.cls = "AdvancedFilter" =>
    /\ Len(ResolvedPayload(call.rest)) \notin {1, 2} => outcome = "threw"
    /\ outcome = "ok" => Len(filter.conditions.v) \in {1, 2}

\* C3: constructing an AdvancedFilter fails whenever the logical operator
\* is not a string or is the empty string, whatever the conditions; every
\* constructed AdvancedFilter has as logicalOperator the non-empty string
\* it was given.
C3_LogicalOperatorGuard ==
  call.cls = "AdvancedFilter" =>
    /\ (call.operator.t # "string" \/ call.operator = Str("")) =>
         outcome = "threw"
    /\ outcome = "ok" =>
         /\ filter.logicalOperator = call.operator
         /\ filter.logicalOperator.t = "string"
         /\ filter.logicalOperator.v # ""

\* C3's case: a non-string logical operator with an acceptable condition.
C3_Witness ==
  /\ call.cls = "AdvancedFilter"
  /\ call.operator = Num(1)
  /\ call.rest = <<Condition(Str("a"), "Is")>>
  /\ outcome = "threw"

\* The call's payload items, when the call gives at least one item and
\* none of them is itself an array; otherwise no items.
PayloadItems(rest) ==
  LET p == ResolvedPayload(rest)
  IN IF rest # <<>> /\ (Len(rest) = 1 \/ ~isArray(rest[1]))
          /\ \A i \in DOMAIN p : ~isArray(p[i])
     THEN p ELSE <<>>

\* C4: for both filters and every payload of N >= 1 items accepted in at
\* least one form, the array form and the positional form both succeed and
\* yield identical toJSON() output.
C4_FormsEquivalent ==
  (call.cls # "none" /\ PayloadItems(call.rest) # <<>>) =>
    LET items == PayloadItems(call.rest)
        asArray == New(call.cls, call.target, call.operator, <<Arr(items)>>)
        asArgs == New(call.cls, call.target, call.operator, items)
    IN (~asArray.threw \/ ~asArgs.threw) =>
         /\ ~asArray.threw
         /\ ~asArgs.threw
         /\ toJSON(call.cls, asArray.obj) = toJSON(call.cls, asArgs.obj)

\* C5: when the first trailing argument is an array it is the complete
\* payload and further positional arguments change neither the stored
\* payload nor whether construction succeeds; when it is not an array the
\* stored payload is the full positional tail in order.
C5_ArrayFirstIsWholePayload ==
  (call.cls # "none" /\ call.rest # <<>>) =>
    IF isArray(call.rest[1])
    THEN LET alone == New(call.cls, call.target, call.operator, <<call.rest[1]>>)
         IN /\ (outcome = "threw") = alone.threw
            /\ outcome = "ok" => StoredPayload = call.rest[1]
    ELSE outcome = "ok" => StoredPayload = Arr(call.rest)

IsFilterTarget(x) == x = ColumnTarget

IsCondition(c) ==
  /\ c.t = "object"
  /\ DOMAIN c.v = {"value", "operator"}
  /\ IsScalar(c.v["value"])
  /\ c.v["operator"].t = "string"

\* The constructed filter is a BasicFilter with a valid target, a string
\* operator and a non-empty list of scalar values, or an AdvancedFilter
\* with a valid target and 1 or 2 well-formed conditions.
WellFormedFilter ==
  /\ outcome = "ok"
  /\ IsFilterTarget(filter.target)
  /\ IF call.cls = "BasicFilter"
     THEN /\ filter.operator.t = "string"
          /\ Len(filter.values.v) >= 1
          /\ \A i \in DOMAIN filter.values.v : IsScalar(filter.values.v[i])
     ELSE /\ Len(filter.conditions.v) \in {1, 2}
          /\ \A i \in DOMAIN filter.conditions.v : IsCondition(filter.conditions.v[i])

MessageFor(e) ==
  IF "message" \in DOMAIN e /\ e["message"] # ""
  THEN e["message"]
  ELSE e["path"] \o " is invalid. Not meeting " \o e["keyword"] \o " constraint"

\* C7: a produced validator returns undefined exactly when the schema
\* evaluator accepts the value; otherwise a non-empty list with one
\* normalised error per raw failure, in the raw failures' order; never a
\* defined empty list.
C7_UndefinedOrNonEmptyList ==
  verrors # NotRun =>
    LET run == jsen(SchemaOf(vname), AuxOf(vname, vmissing), vinput)
    IN /\ (verrors = ReturnedUndefined) = run.isValid
       /\ (~run.threw /\ ~run.isValid) =>
            /\ verrors.kind = "list"
            /\ Len(verrors.list) = Len(raw)
            /\ Len(verrors.list) >= 1
            /\ \A i \in DOMAIN raw : verrors.list[i]["message"] = MessageFor(raw[i])
       /\ verrors # Returned(<<>>)

\* C7's case: a value with two failures, reported in order.
C7_Witness ==
  /\ vname = "validateLoad"
  /\ vinput = EmptyObject
  /\ verrors = Returned(<<[message |-> "accessToken is required"],
                          [message |-> "id is required"]>>)

\* C8: normalizeError keeps a non-empty override message verbatim,
\* otherwise builds "<path> is invalid. Not meeting <keyword> constraint",
\* and the result carries no field but message.
C8_NormalizedMessage ==
  /\ nout # <<>> =>
       /\ DOMAIN nout = {"message"}
       /\ nout["message"] = MessageFor(nin)
  /\ verrors.kind = "list" =>
       \A i \in DOMAIN verrors.list :
         /\ DOMAIN verrors.list[i] = {"message"}
         /\ i \in DOMAIN raw => verrors.list[i]["message"] = MessageFor(raw[i])

\* C8's case: a failure with an empty override message, synthesised.
C8_Witness ==
  /\ nin = [path |-> "values.0", keyword |-> "type", message |-> ""]
  /\ nout = [message |-> "values.0 is invalid. Not meeting type constraint"]

IsStringField(x, f) == x.t = "object" /\ f \in DOMAIN x.v /\ x.v[f].t = "string"

IsArrayField(x, f) == x.t = "object" /\ f \in DOMAIN x.v /\ x.v[f].t = "array"

\* The classification rule: Basic first, then Advanced, else Unknown.
Classified(x) ==
  IF IsStringField(x, "operator") /\ IsArrayField(x, "values") THEN "Basic"
  ELSE IF IsStringField(x, "logicalOperator") /\ IsArrayField(x, "conditions")
  THEN "Advanced"
  ELSE "Unknown"

\* x and y differ at most in $schema.
SameButSchema(x, y) ==
  /\ x.t = "object"
  /\ y.t = "object"
  /\ DOMAIN x.v \ {"$schema"} = DOMAIN y.v \ {"$schema"}
  /\ \A k \in DOMAIN x.v \ {"$schema"} : x.v[k] = y.v[k]

\* C9 as stated: for every JSON value getFilterType returns Basic iff
\* operator is a string and values an array, else Advanced iff
\* logicalOperator is a string and conditions an array, else Unknown.
C9_ClassifiesEveryValue ==
  ftype # "NotRun" => ftype = Classified(finput)

\* C9 as amended: the rule holds for every JSON value other than null
\* (a value satisfying both checks is Basic), and $schema does not
\* influence the result.
C9_ClassifiesNonNull ==
  (ftype # "NotRun" /\ finput # Null) =>
    /\ ftype = Classified(finput)
    /\ \A y \in FilterSamples : SameButSchema(finput, y) => getFilterType(y) = ftype

\* C9's case: a value satisfying both checks, carrying the Advanced
\* $schema, classified Basic.
C9_Witness ==
  /\ finput = Obj(("$schema" :> Str(AdvancedSchemaUrl))
                    @@ [operator |-> Str("In"), values |-> Arr(<<>>),
                        logicalOperator |-> Str("And"), conditions |-> Arr(<<>>)])
  /\ ftype = "Basic"

\* C10 as stated: getFilterType of a constructed BasicFilter's JSON is
\* Basic, of a constructed AdvancedFilter's JSON Advanced, of {} Unknown.
C10_ClassifiesOwnJSON ==
  ftype # "NotRun" =>
    /\ (outcome = "ok" /\ finput = json) =>
         ftype = (IF call.cls = "BasicFilter" THEN "Basic" ELSE "Advanced")
    /\ finput = EmptyObject => ftype = "Unknown"

\* C10 as amended: the BasicFilter must have been given a string operator.
C10_ClassifiesOwnJSONGivenStringOperator ==
  ftype # "NotRun" =>
    /\ (outcome = "ok" /\ finput = json /\ call.cls = "BasicFilter"
          /\ call.operator.t = "string") => ftype = "Basic"
    /\ (outcome = "ok" /\ finput = json /\ call.cls = "AdvancedFilter") =>
         ftype = "Advanced"
    /\ finput = EmptyObject => ftype = "Unknown"

\* C10's case: the JSON of a BasicFilter given its values as an array.
C10_Witness ==
  /\ call.cls = "BasicFilter"
  /\ call.operator = Str("In")
  /\ call.rest = <<Arr(<<Str("a"), Num(100)>>)>>
  /\ finput = json
  /\ ftype = "Basic"

\* C11: toJSON() of a BasicFilter is a flat record of exactly $schema (the
\* basic identifier), target, operator and values, and of an
\* AdvancedFilter exactly $schema (the advanced identifier), target,
\* logicalOperator and conditions, each equal to the filter's field; however
\* often toJSON() is called the filter's fields stay as constructed and
\* every call returns structurally equal output.
C11_ToJSONExactAndStable ==
  json # Undefined =>
    /\ json.t = "object"
    /\ IF call.cls = "BasicFilter"
       THEN /\ DOMAIN json.v = {"$schema", "target", "operator", "values"}
            /\ json.v["$schema"] = Str("http://powerbi.com/product/schema#basic")
            /\ json.v["target"] = filter.target
            /\ json.v["operator"] = filter.operator
            /\ json.v["values"] = filter.values
       ELSE /\ DOMAIN json.v = {"$schema", "target", "logicalOperator", "conditions"}
            /\ json.v["$schema"] = Str("http://powerbi.com/product/schema#advanced")
            /\ json.v["target"] = filter.target
            /\ json.v["logicalOperator"] = filter.logicalOperator
            /\ json.v["conditions"] = filter.conditions
    /\ filter = New(call.cls, call.target, call.operator, call.rest).obj
    /\ prevJson # Undefined => prevJson = json

\* C11's case: an AdvancedFilter of two conditions serialised more than once.
C11_Witness ==
  /\ call.cls = "AdvancedFilter"
  /\ call.rest = <<Condition(Str("a"), "Is"), Condition(Num(1), "Is")>>
  /\ prevJson # Undefined
  /\ json = AdvancedJSON(Arr(call.rest))
  /\ call.target = ColumnTarget

\* The validator in use was built with an auxiliary mapping that lacks a
\* schema its root schema (transitively) names.
Miswired == ~Resolves(SchemaOf(vname), AuxOf(vname, vmissing))

\* C12: when the root schema names a schema absent from the auxiliary
\* mapping, every call of the produced validator throws; none returns
\* undefined or an error list.
C12_MiswiredValidatorThrows ==
  (verrors # NotRun /\ Miswired) =>
    /\ verrors = Threw
    /\ verrors # ReturnedUndefined
    /\ verrors.kind # "list"

\* C12's case: the filter validator built without the advanced schema,
\* called on a value that a complete validator accepts.
C12_Witness ==
  /\ vname = "validateFilter"
  /\ vmissing = {"advancedFilter"}
  /\ vinput = BasicJSON(Arr(<<Str("a"), Num(100), Bool(FALSE)>>))
  /\ validateFilter(vinput) = ReturnedUndefined
  /\ verrors = Threw

\* What the value x yields when it is the only value validator `name`,
\* built without the names in `missing`, is ever called on.
Alone(name, missing, x) ==
  LET run == jsen(SchemaOf(name), AuxOf(name, missing), x)
  IN IF run.threw THEN Threw
     ELSE IF run.isValid THEN ReturnedUndefined
     ELSE Returned([i \in DOMAIN run.errors |-> [message |-> MessageFor(run.errors[i])]])

=============================================================================
